---------------------------- MODULE Spec2Model ----------------------------
(***************************************************************************)
(* SendPulseClient (TypeScript class) : token lifecycle and request        *)
(* dispatch.  One client instance, its token field, the calls made on it   *)
(* and the HTTP requests each call hands to the transport (axios).         *)
(*                                                                         *)
(* A call runs synchronously up to its first await.  The awaits are:       *)
(*   - the token request issued by getToken (through sendRequest with      *)
(*     useToken = false),                                                  *)
(*   - the resumption of sendRequest after `await this.getToken()`,        *)
(*   - the endpoint request.                                               *)
(* Each action below is one such synchronous segment.  Time (Date.now(),   *)
(* in milliseconds) may advance between any two segments.                  *)
(***************************************************************************)
EXTENDS Integers, Sequences, FiniteSets, TLC

(* ------------------------------ bounds -------------------------------- *)

\* Number of calls made on the client in one behaviour.
MaxCalls == 2

\* Number of one-second steps the clock takes in one behaviour.
MaxTime == 2

\* The token endpoint reports lifetimes from Margin - 1 to Margin + MaxLife.
MaxLife == 1

\* Longest array handed to a list-encoding wrapper.
MaxArr == 2

\* Longest string in such an array.
MaxStr == 1

\* Most values, objects and leaves together, in a tree handed to
\* serializeArray.
MaxNodes == 4

(* ------------------------- program constants -------------------------- *)

\* `data.expires_in - 60`
Margin == 60

\* `* 1000` : seconds to the milliseconds of Date.now()
MsPerSec == 1000

TOKEN_PATH == "oauth/access_token"

\* Variant: PATCH is missing from the list.
RawMethodsNoPatch == {"POST", "GET", "DELETE", "PUT"}

\* `['POST', 'GET', 'DELETE', 'PUT', 'PATCH'].includes(method)`
RawMethods == {"POST", "GET", "DELETE", "PUT", "PATCH"}

(* ------------------------------ inputs -------------------------------- *)

CallIds == 1..MaxCalls

ExpiresIns == (Margin - 1)..(Margin + MaxLife)

\* Verbs a caller may hand to sendRequestRaw (TypeScript types are erased at
\* run time, and the legacy entry point is untyped).
AnyMethods == {"POST", "GET", "DELETE", "PUT", "PATCH", "HEAD", "get"}

\* A string argument: not passed, the empty string, a non-empty string.
StrArgs == {"undefined", "empty", "value"}

\* An array argument: not passed, [], a non-empty array.
ArrArgs == {"undefined", "empty", "value"}

(* ------------------------------- state -------------------------------- *)

VARIABLES
    token,    \* this.token : held = FALSE is `undefined`
    peer,     \* this.token of a second SendPulseClient instance
    phones,   \* the phones argument handed to smsAddPhones
    now,      \* Date.now()
    calls,    \* per call: the operation, its arguments and where it stands
    reqs,     \* per call: the requests it handed to the transport, in order
    nCalls,   \* calls started so far
    issued,   \* access tokens the token endpoint has issued so far
    lastFetch, \* the clock and the reported lifetime at the last stored token
    API_CREDS,     \* legacy module: API_USER_ID and API_SECRET
    TOKEN,         \* legacy module: TOKEN ; held = FALSE is ''
    TOKEN_STORAGE, \* legacy module: TOKEN_STORAGE, by hash name
    legacyCalls,   \* legacy module: per call, the function and where it stands
    legacyReqs,    \* legacy module: per call, the requests handed to axios
    params,        \* serializeArray: the params argument
    prefix,        \* serializeArray: the prefix argument
    result         \* serializeArray: what the call returned

\* The state of the SendPulseClient class, of the legacy module, and of a
\* call of serializeArray.
client == <<token, peer, phones, now, calls, reqs, nCalls, issued, lastFetch>>
legacy == <<API_CREDS, TOKEN, TOKEN_STORAGE, legacyCalls, legacyReqs>>
flat == <<params, prefix, result>>

vars == <<client, legacy, flat>>

NoToken == [held |-> FALSE, access_token |-> 0, expires_at |-> 0, expires_nan |-> FALSE]

\* The payload handed to sendRequest, as far as it is modelled: its phones
\* field, a string of characters when it is set.
NoData == [has_phones |-> FALSE, phones |-> <<>>]

NoCall ==
    [inst |-> 1, op |-> "none", pc |-> "none", err |-> "none", useToken |-> FALSE,
     path |-> "", method |-> "", data |-> NoData, args |-> "ok", found |-> "none"]

\* smsAddPhones was not called.
NoPhones == [kind |-> "none", arr |-> <<>>]

NoFetch == [at |-> 0, expires_in |-> 0, has_expires_in |-> FALSE]

\* Credentials: a client id and a secret, each a string of characters.
\* The first two differ and yet read the same once joined with '::'.
Creds ==
    {[client_id |-> <<"a">>, secret |-> <<"b", "::", "c">>],
     [client_id |-> <<"a", "::", "b">>, secret |-> <<"c">>],
     [client_id |-> <<"x">>, secret |-> <<"y">>]}

\* `let API_USER_ID = ''; let API_SECRET = '';`
NoCreds == [client_id |-> <<>>, secret |-> <<>>]

\* `md5(API_USER_ID + '::' + API_SECRET)` : the string that is hashed; two
\* strings have the same digest exactly when they are the same string.
HashName(creds) == creds.client_id \o <<"::">> \o creds.secret

HashNames == {HashName(creds) : creds \in Creds \cup {NoCreds}}

\* `let TOKEN = '';`
NoBearer == [held |-> FALSE, for |-> NoCreds]

NoLegacyCall == [op |-> "none", pc |-> "none", err |-> "none", creds |-> NoCreds]

\* What a caller may hand to getBalance as currency: nothing, '', a code in
\* lower case, a code in upper case.
CurrencyArgs ==
    {[given |-> FALSE, value |-> ""], [given |-> TRUE, value |-> ""],
     [given |-> TRUE, value |-> "usd"], [given |-> TRUE, value |-> "USD"]}

\* The legacy module as loaded.
LegacyLoaded ==
    /\ API_CREDS = NoCreds
    /\ TOKEN = NoBearer
    /\ TOKEN_STORAGE = [h \in HashNames |-> NoBearer]
    /\ legacyCalls = [c \in CallIds |-> NoLegacyCall]
    /\ legacyReqs = [c \in CallIds |-> <<>>]

\* serializeArray was not called.
NoResult == [returned |-> FALSE, value |-> <<>>]

FlatIdle ==
    /\ params = [kind |-> "object", fields |-> <<>>]
    /\ prefix = [given |-> FALSE, name |-> <<>>]
    /\ result = NoResult

Init ==
    /\ LegacyLoaded
    /\ FlatIdle
    /\ token = NoToken
    /\ peer = NoToken
    /\ phones = NoPhones
    /\ now = 0
    /\ calls = [c \in CallIds |-> NoCall]
    /\ reqs = [c \in CallIds |-> <<>>]
    /\ nCalls = 0
    /\ issued = 0
    /\ lastFetch = NoFetch

(* ------------------------- sendRequest, getToken ---------------------- *)

\* Two SendPulseClient instances: the one the wrappers are called on, and a
\* second one constructed beside it.
This == 1
That == 2
Insts == {This, That}

\* Variant: the token is a static field, one for every instance.
TokShared(i) == token

\* `this.token`, read by code running on instance i.
Tok(i) == IF i = This THEN token ELSE peer

\* `this.token = tok`, executed by code running on instance i.
SetTok(i, tok) ==
    IF i = This THEN token' = tok /\ peer' = peer
                ELSE peer' = tok /\ token' = token

\* `Date.now() >= this.token.expires_at` ; a comparison with NaN is false.
Expired(tok) == ~tok.expires_nan /\ now >= tok.expires_at

\* Variant: every authorized call fetches, whatever the token held.
NeedsTokenAlways(i, useToken) == useToken

\* Variant: the expiry test is made without looking at useToken.
NeedsTokenAnyCall(i, useToken) == ~Tok(i).held \/ Expired(Tok(i))

\* Variant: the token is renewed one second before its stored expiry.
NeedsTokenEarly(i, useToken) ==
    useToken /\ (~Tok(i).held \/ Expired(Tok(i))
                   \/ (~Tok(i).expires_nan /\ now + MsPerSec >= Tok(i).expires_at))

\* `if (useToken) { if (!this.token || Date.now() >= this.token.expires_at)`
NeedsToken(i, useToken) == useToken /\ (~Tok(i).held \/ Expired(Tok(i)))

\* The token's state as the spec names it, observed at the current instant:
\* Absent, Valid (now < expires_at), Expired (now >= expires_at), or NaN for
\* a token whose expiry is not a number.
TokenState(tok) ==
    IF ~tok.held THEN "Absent"
    ELSE IF tok.expires_nan THEN "NaN"
    ELSE IF now < tok.expires_at THEN "Valid"
    ELSE "Expired"

(* new URL(path, this.apiUrl) *)

\* `apiUrl = 'https://api.sendpulse.com'` : its host; it has no path.
API_HOST == "api.sendpulse.com"

\* Paths a caller may hand to sendRequest / sendRequestRaw: a relative one,
\* one with a leading slash, a scheme-relative one and an absolute URL.
PathArgs ==
    {"custom", "/custom", "//evil.example/custom", "https://evil.example/custom"}

\* The parts of a path as the URL parser sees them; a path with neither a
\* scheme nor a leading slash is one relative reference.
Parts(path) ==
    CASE path = "/custom" -> <<"/", "custom">>
      [] path = "//evil.example/custom" -> <<"//", "evil.example", "/", "custom">>
      [] path = "https://evil.example/custom" ->
             <<"https:", "//", "evil.example", "/", "custom">>
      [] OTHER -> <<path>>

\* new URL(path, base), base being https://<host> : an absolute URL stands for
\* itself, a scheme-relative one takes only the scheme of the base, a path
\* with a leading slash or a relative one is resolved on the host of the base.
URL(path, host) ==
    IF Parts(path)[1] = "https:"
    THEN [host |-> Parts(path)[3], pathname |-> SubSeq(Parts(path), 4, Len(Parts(path)))]
    ELSE IF Parts(path)[1] = "//"
    THEN [host |-> Parts(path)[2], pathname |-> SubSeq(Parts(path), 3, Len(Parts(path)))]
    ELSE IF Parts(path)[1] = "/"
    THEN [host |-> host, pathname |-> Parts(path)]
    ELSE [host |-> host, pathname |-> <<"/">> \o Parts(path)]

\* Variant: the header is attached whenever a token is held (as the legacy
\* module does with `useToken && TOKEN.length` turned into `TOKEN.length`).
EndpointRequestBearerIfHeld(i, path, method, data, useToken) ==
    [path |-> path, url |-> URL(path, API_HOST),
     method |-> method, data |-> data, auth |-> Tok(i).held,
     bearer |-> IF Tok(i).held THEN Tok(i).access_token ELSE 0,
     status |-> "inflight", found |-> TokenState(Tok(i)), access_token |-> 0]

\* The request sendRequest hands to axios.request; with useToken the header
\* is 'Bearer ' + this.token.access_token, read at this instant.  found
\* records the token's state at that instant; access_token is the token
\* endpoint's answer, filled in when it arrives.
EndpointRequest(i, path, method, data, useToken) ==
    [path |-> path, url |-> URL(path, API_HOST),
     method |-> method, data |-> data, auth |-> useToken,
     bearer |-> IF useToken THEN Tok(i).access_token ELSE 0,
     status |-> "inflight", found |-> TokenState(Tok(i)), access_token |-> 0]

\* The request getToken makes: sendRequest(TOKEN_PATH, 'POST', {...}, false).
\* Of its payload (grant type, client id, client secret) nothing is kept.
TokenRequest(i) == EndpointRequest(i, TOKEN_PATH, "POST", NoData, FALSE)

\* Variant: a call that needs a token while another call's fetch is in
\* flight waits for that fetch instead of making its own.
SendRequestSingleFlight(c, i, op, args, path, method, data, useToken) ==
    /\ calls' = [calls EXCEPT ![c] =
          [inst |-> i, op |-> op, err |-> "none", useToken |-> useToken,
           pc |-> IF ~NeedsToken(i, useToken) THEN "request"
                  ELSE IF \E d \in CallIds : calls[d].pc = "getToken"
                       THEN "waiting" ELSE "getToken",
           path |-> path, method |-> method, data |-> data, args |-> args,
           found |-> TokenState(Tok(i))]]
    /\ reqs' = [reqs EXCEPT ![c] =
          IF ~NeedsToken(i, useToken)
          THEN <<EndpointRequest(i, path, method, data, useToken)>>
          ELSE IF \E d \in CallIds : calls[d].pc = "getToken"
               THEN <<>> ELSE <<TokenRequest(i)>>]
    /\ nCalls' = c
    /\ UNCHANGED <<legacy, flat, token, peer, phones, now, issued, lastFetch>>

\* Variant: getToken is called without `await`, so the endpoint request goes
\* out together with the token request.
SendRequestNoAwait(c, i, op, args, path, method, data, useToken) ==
    /\ calls' = [calls EXCEPT ![c] =
          [inst |-> i, op |-> op, err |-> "none", useToken |-> useToken,
           pc |-> "request",
           path |-> path, method |-> method, data |-> data, args |-> args,
           found |-> TokenState(Tok(i))]]
    /\ reqs' = [reqs EXCEPT ![c] =
          IF NeedsToken(i, useToken)
          THEN <<TokenRequest(i), EndpointRequest(i, path, method, data, useToken)>>
          ELSE <<EndpointRequest(i, path, method, data, useToken)>>]
    /\ nCalls' = c
    /\ UNCHANGED <<legacy, flat, token, peer, phones, now, issued, lastFetch>>

\* The synchronous head of sendRequest(path, method, data, useToken), called
\* on instance i by operation op of call c: either getToken is awaited (its
\* token request goes out) or the endpoint request goes out at once.
SendRequest(c, i, op, args, path, method, data, useToken) ==
    /\ calls' = [calls EXCEPT ![c] =
          [inst |-> i, op |-> op, err |-> "none", useToken |-> useToken,
           pc |-> IF NeedsToken(i, useToken) THEN "getToken" ELSE "request",
           path |-> path, method |-> method, data |-> data, args |-> args,
           found |-> TokenState(Tok(i))]]
    /\ reqs' = [reqs EXCEPT ![c] =
          IF NeedsToken(i, useToken)
          THEN <<TokenRequest(i)>>
          ELSE <<EndpointRequest(i, path, method, data, useToken)>>]
    /\ nCalls' = c
    /\ UNCHANGED <<legacy, flat, token, peer, phones, now, issued, lastFetch>>

\* A wrapper or sendRequestRaw throws before calling sendRequest.
Throw(c, op, args, method, err) ==
    /\ calls' = [calls EXCEPT ![c] =
          [inst |-> This, op |-> op, err |-> err, useToken |-> TRUE,
           pc |-> "failed",
           path |-> "", method |-> method, data |-> NoData, args |-> args,
           found |-> TokenState(token)]]
    /\ nCalls' = c
    /\ UNCHANGED <<legacy, flat, token, peer, phones, now, reqs, issued, lastFetch>>

\* Variant: the reported lifetime is stored without the safety margin.
StoredTokenNoMargin(access_token, expires_in, has_expires_in) ==
    [held |-> TRUE, access_token |-> access_token,
     expires_at |-> IF has_expires_in THEN now + expires_in * MsPerSec ELSE 0,
     expires_nan |-> ~has_expires_in]

\* Variant: a refresh updates the expiry of the token held and keeps its
\* bearer string.
StoredTokenKeepsBearer(access_token, expires_in, has_expires_in) ==
    [held |-> TRUE,
     access_token |-> IF token.held THEN token.access_token ELSE access_token,
     expires_at |-> IF has_expires_in
                    THEN now + (expires_in - Margin) * MsPerSec ELSE 0,
     expires_nan |-> ~has_expires_in]

\* The token getToken stores from the response body:
\* { access_token, expires_at: Date.now() + (data.expires_in - 60) * 1000 };
\* without expires_in the arithmetic yields NaN.
StoredToken(access_token, expires_in, has_expires_in) ==
    [held |-> TRUE, access_token |-> access_token,
     expires_at |-> IF has_expires_in
                    THEN now + (expires_in - Margin) * MsPerSec ELSE 0,
     expires_nan |-> ~has_expires_in]

\* Variant: a failed fetch drops the token held.
TokenCleared(tok) == NoToken

\* The token field after getToken's request threw: the assignment to
\* this.token is never reached.
TokenAfterFailure(tok) == tok

\* The last request of call c with its answer written in.
Answered(c, status, access_token) ==
    [reqs EXCEPT ![c][Len(reqs[c])] =
        [@ EXCEPT !.status = status, !.access_token = access_token]]

(* --------------------------- JSON.stringify --------------------------- *)

\* A string is a sequence of characters; the characters of the model are a
\* digit, the comma, the double quote and the backslash.
Chars == {"7", ",", "\"", "\\"}

Strings == UNION {[1..n -> Chars] : n \in 0..MaxStr}

\* Arrays of strings, [] included.
Arrays == UNION {[1..n -> Strings] : n \in 0..MaxArr}

\* What a caller may hand to smsAddPhones as phones.
PhonesArgs ==
    {[kind |-> "undefined", value |-> <<>>]}
        \cup {[kind |-> "array", value |-> a] : a \in Arrays}
        \cup {[kind |-> "string", value |-> s] : s \in Strings}

\* JSON.stringify of a string, between its quotes: `"` and `\` get a
\* backslash in front.
RECURSIVE Escape(_)
Escape(str) ==
    IF str = <<>> THEN <<>>
    ELSE (IF Head(str) \in {"\"", "\\"} THEN <<"\\", Head(str)>> ELSE <<Head(str)>>)
             \o Escape(Tail(str))

Quoted(str) == <<"\"">> \o Escape(str) \o <<"\"">>

RECURSIVE Elements(_)
Elements(arr) ==
    IF arr = <<>> THEN <<>>
    ELSE IF Len(arr) = 1 THEN Quoted(arr[1])
    ELSE Quoted(arr[1]) \o <<",">> \o Elements(Tail(arr))

\* JSON.stringify(arr) for an array of strings: the text [ "e1","e2",... ].
JSON_stringify(arr) == <<"[">> \o Elements(arr) \o <<"]">>

(* ------------------------------ operations ---------------------------- *)

Fresh(c) == c = nCalls + 1 /\ c \in CallIds

\* What a call was given for its required arguments: "undefined" when one of
\* them was not passed, else "empty" when one is '' or [], else "ok".
Given(x, y) ==
    IF "undefined" \in {x, y} THEN "undefined"
    ELSE IF "empty" \in {x, y} THEN "empty"
    ELSE "ok"

\* listAddressBooks()
ListAddressBooks(c) ==
    /\ Fresh(c)
    /\ SendRequest(c, This, "listAddressBooks", "ok", "addressbooks", "GET", NoData, TRUE)

\* sendRequest(path, 'POST', data, useToken), called on instance i directly.
SendRequestCall(c, i, path, useToken) ==
    /\ Fresh(c)
    /\ SendRequest(c, i, "sendRequest", "ok", path, "POST", NoData, useToken)

\* getToken(), called on instance i directly.
GetTokenCall(c, i) ==
    /\ Fresh(c)
    /\ calls' = [calls EXCEPT ![c] =
          [inst |-> i, op |-> "getToken", err |-> "none", useToken |-> FALSE,
           pc |-> "getToken",
           path |-> TOKEN_PATH, method |-> "POST", data |-> NoData, args |-> "ok",
           found |-> TokenState(Tok(i))]]
    /\ reqs' = [reqs EXCEPT ![c] = <<TokenRequest(i)>>]
    /\ nCalls' = c
    /\ UNCHANGED <<legacy, flat, token, peer, phones, now, issued, lastFetch>>

\* createAddressBook(book_name)
CreateAddressBook(c, book_name) ==
    /\ Fresh(c)
    /\ IF book_name = "undefined"
       THEN Throw(c, "createAddressBook", Given(book_name, "value"),
                  "POST", "validation")
       ELSE SendRequest(c, This, "createAddressBook", Given(book_name, "value"),
                        "addressbooks", "POST", NoData, TRUE)

\* addAddressBookEmails(book_id, emails)
AddAddressBookEmails(c, book_id, emails) ==
    /\ Fresh(c)
    /\ IF book_id = "undefined" \/ emails = "undefined"
       THEN Throw(c, "addAddressBookEmails", Given(book_id, emails),
                  "POST", "validation")
       ELSE SendRequest(c, This, "addAddressBookEmails", Given(book_id, emails),
                        "addressbooks/emails", "POST", NoData, TRUE)

\* sendRequestRaw(path, method, data)
SendRequestRaw(c, path, method) ==
    /\ Fresh(c)
    /\ IF method \notin RawMethods
       THEN Throw(c, "sendRequestRaw", "ok", method, "unknown_method")
       ELSE SendRequest(c, This, "sendRequestRaw", "ok", path, method, NoData, TRUE)

\* The payload smsAddPhones builds from phones: a non-empty array is
\* JSON-encoded, a string is wrapped in an array and JSON-encoded, and for an
\* empty array the phones field is not set.
PhonesData(ph) ==
    IF ph.kind = "array" /\ Len(ph.value) # 0
    THEN [has_phones |-> TRUE, phones |-> JSON_stringify(ph.value)]
    ELSE IF ph.kind = "string"
    THEN [has_phones |-> TRUE, phones |-> JSON_stringify(<<ph.value>>)]
    ELSE NoData

\* smsAddPhones(phones), the argument being the one held in phones.
SmsAddPhones(c) ==
    /\ Fresh(c)
    /\ IF phones.kind = "undefined"
       THEN Throw(c, "smsAddPhones", "undefined", "POST", "validation")
       ELSE SendRequest(c, This, "smsAddPhones",
                        IF Len(phones.value) = 0 THEN "empty" ELSE "ok",
                        "sms/black_list/add", "POST", PhonesData(phones), TRUE)

(* --------------------- the transport answers; resumption -------------- *)

\* The token endpoint answers 2xx: the inner sendRequest returns the body and
\* getToken stores the token.  A direct getToken call is then over; inside
\* sendRequest the code after `await this.getToken()` is still to run.
\* lastFetch follows the tokens stored on the first instance.
TokenOk(c, expires_in, has_expires_in) ==
    /\ calls[c].pc = "getToken"
    /\ SetTok(calls[c].inst, StoredToken(issued + 1, expires_in, has_expires_in))
    /\ issued' = issued + 1
    /\ reqs' = Answered(c, "ok", issued + 1)
    /\ lastFetch' = IF calls[c].inst = This
                    THEN [at |-> now, expires_in |-> expires_in,
                          has_expires_in |-> has_expires_in]
                    ELSE lastFetch
    /\ calls' = [calls EXCEPT ![c].pc =
                   IF calls[c].op = "getToken" THEN "done" ELSE "resume"]
    /\ UNCHANGED <<legacy, flat, phones, now, nCalls>>

\* Variant: a failed token request is made again.
TokenFailRetry(c) ==
    /\ calls[c].pc = "getToken"
    /\ Len(reqs[c]) < 3
    /\ reqs' = [reqs EXCEPT ![c] =
          Append(Answered(c, "failed", 0)[c], TokenRequest(calls[c].inst))]
    /\ UNCHANGED <<legacy, flat, token, peer, phones, now, calls, nCalls, issued, lastFetch>>

\* Variant: getToken catches the error of its request and returns, so the
\* sendRequest awaiting it carries on.
TokenFailSwallowed(c) ==
    /\ calls[c].pc = "getToken"
    /\ reqs' = Answered(c, "failed", 0)
    /\ calls' = [calls EXCEPT ![c].pc =
                   IF calls[c].op = "getToken" THEN "done" ELSE "resume"]
    /\ UNCHANGED <<legacy, flat, token, peer, phones, now, nCalls, issued, lastFetch>>

\* The token request fails (transport error or non-2xx): axios throws, and
\* the exception leaves getToken and the sendRequest awaiting it.
TokenFail(c) ==
    /\ calls[c].pc = "getToken"
    /\ SetTok(calls[c].inst, TokenAfterFailure(Tok(calls[c].inst)))
    /\ reqs' = Answered(c, "failed", 0)
    /\ calls' = [calls EXCEPT ![c].pc = "failed", ![c].err = "request"]
    /\ UNCHANGED <<legacy, flat, phones, now, nCalls, issued, lastFetch>>

\* sendRequest resumes after `await this.getToken()`: the Authorization
\* header is built from this.token and the endpoint request goes out.
Resume(c) ==
    /\ calls[c].pc = "resume"
    /\ reqs' = [reqs EXCEPT ![c] =
          Append(@, EndpointRequest(calls[c].inst, calls[c].path, calls[c].method,
                                    calls[c].data, calls[c].useToken))]
    /\ calls' = [calls EXCEPT ![c].pc = "request"]
    /\ UNCHANGED <<legacy, flat, token, peer, phones, now, nCalls, issued, lastFetch>>

\* The endpoint answers 2xx: sendRequest returns the response body.
EndpointOk(c) ==
    /\ calls[c].pc = "request"
    /\ reqs' = Answered(c, "ok", 0)
    /\ calls' = [calls EXCEPT ![c].pc = "done"]
    /\ UNCHANGED <<legacy, flat, token, peer, phones, now, nCalls, issued, lastFetch>>

\* Variant: a failed endpoint request is taken for a rejected token, which
\* is dropped.
EndpointFailDropsToken(c) ==
    /\ calls[c].pc = "request"
    /\ reqs' = Answered(c, "failed", 0)
    /\ calls' = [calls EXCEPT ![c].pc = "failed", ![c].err = "request"]
    /\ SetTok(calls[c].inst, NoToken)
    /\ UNCHANGED <<legacy, flat, phones, now, nCalls, issued, lastFetch>>

\* Variant: a failed endpoint request is made once more.
EndpointFailRetry(c) ==
    /\ calls[c].pc = "request"
    /\ IF Cardinality({k \in 1..Len(reqs[c]) : reqs[c][k].status = "failed"}) = 0
       THEN /\ reqs' = [reqs EXCEPT ![c] =
                  Append(Answered(c, "failed", 0)[c],
                         EndpointRequest(calls[c].inst, calls[c].path, calls[c].method,
                                         calls[c].data, calls[c].useToken))]
            /\ calls' = calls
       ELSE /\ reqs' = Answered(c, "failed", 0)
            /\ calls' = [calls EXCEPT ![c].pc = "failed", ![c].err = "request"]
    /\ UNCHANGED <<legacy, flat, token, peer, phones, now, nCalls, issued, lastFetch>>

\* The endpoint request fails: axios throws out of sendRequest.
EndpointFail(c) ==
    /\ calls[c].pc = "request"
    /\ reqs' = Answered(c, "failed", 0)
    /\ calls' = [calls EXCEPT ![c].pc = "failed", ![c].err = "request"]
    /\ UNCHANGED <<legacy, flat, token, peer, phones, now, nCalls, issued, lastFetch>>

\* Date.now() advances by one second.
Tick ==
    /\ now < MaxTime * MsPerSec
    /\ now' = now + MsPerSec
    /\ UNCHANGED <<legacy, flat, token, peer, phones, calls, reqs, nCalls, issued, lastFetch>>

\* What the token endpoint may answer with a 2xx.
TokenAnswer(c) ==
    \/ \E n \in ExpiresIns : TokenOk(c, n, TRUE)
    \/ TokenOk(c, 0, FALSE)

\* The steps every call shares once it is under way.
Proceed(c) ==
    \/ TokenAnswer(c)
    \/ TokenFail(c)
    \/ Resume(c)
    \/ EndpointOk(c)
    \/ EndpointFail(c)

(* ---------------------------- legacy module --------------------------- *)

\* The legacy module keeps its credentials and its token in module-level
\* variables, one set for the process.  A legacy token is named by the
\* credentials the token endpoint issued it for.

\* The synchronous head of the legacy sendRequest(path, method, data,
\* useToken) of call c: the header is set `if (useToken && TOKEN.length)`,
\* and the request goes out at once; creds is what a token request carries
\* as client_id and client_secret.
LegacySendRequest(c, path, method, creds, useToken) ==
    legacyReqs' = [legacyReqs EXCEPT ![c] = Append(@,
        [path |-> path, method |-> method, creds |-> creds,
         auth |-> useToken /\ TOKEN.held,
         bearer |-> IF useToken /\ TOKEN.held THEN TOKEN ELSE NoBearer,
         status |-> "inflight"])]

\* The next legacy call to be made.
LegacyFresh(c) ==
    /\ legacyCalls[c].pc = "none"
    /\ \A d \in CallIds : d < c => legacyCalls[d].pc # "none"

\* The legacy getToken(), up to its await: the token request carries the
\* credentials held in API_USER_ID and API_SECRET at this instant.
LegacyGetTokenHead(c, creds) ==
    LegacySendRequest(c, <<TOKEN_PATH>>, "POST", creds, FALSE)

\* init(client_id, secret): the credentials are stored, a token cached under
\* their hash name becomes TOKEN, and a token is fetched only if TOKEN is
\* then still ''.
LegacyInit(c, creds) ==
    /\ LegacyFresh(c)
    /\ API_CREDS' = creds
    /\ TOKEN' = IF TOKEN_STORAGE[HashName(creds)].held
                THEN TOKEN_STORAGE[HashName(creds)] ELSE TOKEN
    /\ IF TOKEN'.held
       THEN /\ legacyCalls' = [legacyCalls EXCEPT ![c] =
                  [op |-> "init", pc |-> "done", err |-> "none", creds |-> creds]]
            /\ legacyReqs' = legacyReqs
       ELSE /\ legacyCalls' = [legacyCalls EXCEPT ![c] =
                  [op |-> "init", pc |-> "getToken", err |-> "none", creds |-> creds]]
            /\ LegacyGetTokenHead(c, creds)
    /\ UNCHANGED <<client, flat, TOKEN_STORAGE>>

\* getToken(), called on the module directly.
LegacyGetToken(c) ==
    /\ LegacyFresh(c)
    /\ legacyCalls' = [legacyCalls EXCEPT ![c] =
          [op |-> "getToken", pc |-> "getToken", err |-> "none", creds |-> API_CREDS]]
    /\ LegacyGetTokenHead(c, API_CREDS)
    /\ UNCHANGED <<client, flat, API_CREDS, TOKEN, TOKEN_STORAGE>>

\* `currency ? ... : ...` : undefined and '' are falsy.
Truthy(currency) == currency.given /\ currency.value # ""

\* String.prototype.toUpperCase, on the currency strings of the model.
ToUpperCase(str) == IF str = "usd" THEN "USD" ELSE str

\* getBalance(currency):
\* sendRequest(currency ? 'balance' : 'balance/' + currency.toUpperCase(),
\*             'GET', {}, true).
\* Reading toUpperCase of undefined throws a TypeError before sendRequest is
\* called.
LegacyGetBalance(c, currency) ==
    /\ LegacyFresh(c)
    /\ IF Truthy(currency)
       THEN /\ legacyCalls' = [legacyCalls EXCEPT ![c] =
                  [op |-> "getBalance", pc |-> "request", err |-> "none",
                   creds |-> API_CREDS, currency |-> currency]]
            /\ LegacySendRequest(c, <<"balance">>, "GET", NoCreds, TRUE)
       ELSE IF ~currency.given
       THEN /\ legacyCalls' = [legacyCalls EXCEPT ![c] =
                  [op |-> "getBalance", pc |-> "failed", err |-> "TypeError",
                   creds |-> API_CREDS, currency |-> currency]]
            /\ legacyReqs' = legacyReqs
       ELSE /\ legacyCalls' = [legacyCalls EXCEPT ![c] =
                  [op |-> "getBalance", pc |-> "request", err |-> "none",
                   creds |-> API_CREDS, currency |-> currency]]
            /\ LegacySendRequest(c, <<"balance", "/", ToUpperCase(currency.value)>>,
                                 "GET", NoCreds, TRUE)
    /\ UNCHANGED <<client, flat, API_CREDS, TOKEN, TOKEN_STORAGE>>

\* The last request of legacy call c with its outcome written in.
LegacyAnswered(c, status) ==
    [legacyReqs EXCEPT ![c][Len(legacyReqs[c])].status = status]

\* The token endpoint answers the token request of call c with a token for
\* the credentials the request carried: getToken resumes, assigns TOKEN, and
\* files it under the hash name of the credentials held at this instant.
LegacyTokenOk(c) ==
    /\ legacyCalls[c].pc = "getToken"
    /\ legacyReqs[c][1].creds \in Creds
    /\ TOKEN' = [held |-> TRUE, for |-> legacyReqs[c][1].creds]
    /\ TOKEN_STORAGE' = [TOKEN_STORAGE EXCEPT ![HashName(API_CREDS)] = TOKEN']
    /\ legacyReqs' = LegacyAnswered(c, "ok")
    /\ legacyCalls' = [legacyCalls EXCEPT ![c].pc = "done"]
    /\ UNCHANGED <<client, flat, API_CREDS>>

\* The token request fails: axios throws out of getToken and out of init.
LegacyTokenFail(c) ==
    /\ legacyCalls[c].pc = "getToken"
    /\ legacyReqs' = LegacyAnswered(c, "failed")
    /\ legacyCalls' = [legacyCalls EXCEPT ![c].pc = "failed", ![c].err = "request"]
    /\ UNCHANGED <<client, flat, API_CREDS, TOKEN, TOKEN_STORAGE>>

\* The endpoint answers the request of a wrapper.
LegacyEndpointOk(c) ==
    /\ legacyCalls[c].pc = "request"
    /\ legacyReqs' = LegacyAnswered(c, "ok")
    /\ legacyCalls' = [legacyCalls EXCEPT ![c].pc = "done"]
    /\ UNCHANGED <<client, flat, API_CREDS, TOKEN, TOKEN_STORAGE>>

\* The request of a wrapper fails.
LegacyEndpointFail(c) ==
    /\ legacyCalls[c].pc = "request"
    /\ legacyReqs' = LegacyAnswered(c, "failed")
    /\ legacyCalls' = [legacyCalls EXCEPT ![c].pc = "failed", ![c].err = "request"]
    /\ UNCHANGED <<client, flat, API_CREDS, TOKEN, TOKEN_STORAGE>>

\* The steps a legacy call takes once it is under way.
LegacyProceed(c) ==
    \/ LegacyTokenOk(c)
    \/ LegacyTokenFail(c)
    \/ LegacyEndpointOk(c)
    \/ LegacyEndpointFail(c)

(* ---------------------------- serializeArray -------------------------- *)

\* Own property names of the objects flattened.
Keys == {"a", "b"}

\* Values that are not plain objects: a number, null and a Date.
Leaves == {[kind |-> "number"], [kind |-> "null"], [kind |-> "date"]}

\* Plain objects over a set of values: any own keys, any of the values.
ObjectsOver(values) ==
    UNION {{[kind |-> "object", fields |-> f] : f \in [ks -> values]} :
              ks \in SUBSET Keys}

\* The number of values in a tree: the value itself and all below it.
RECURSIVE Nodes(_)
RECURSIVE NodesBelow(_, _)
NodesBelow(fields, keys) ==
    IF keys = {} THEN 0
    ELSE LET key == CHOOSE k \in keys : TRUE
         IN  Nodes(fields[key]) + NodesBelow(fields, keys \ {key})

Nodes(value) ==
    IF value.kind = "object"
    THEN 1 + NodesBelow(value.fields, DOMAIN value.fields)
    ELSE 1

\* The trees of at most n values.
RECURSIVE Values(_)
Values(n) ==
    IF n = 0 THEN {}
    ELSE Leaves \cup {v \in ObjectsOver(Values(n - 1)) : Nodes(v) <= n}

\* The params argument: an object, a tree of at most MaxNodes values.
ParamsArgs == {v \in Values(MaxNodes) : v.kind = "object"}

\* The prefix argument: omitted, or a name.
PrefixArgs == {[given |-> FALSE, name |-> <<>>], [given |-> TRUE, name |-> <<"p">>]}

\* typeof value === 'object': so for objects, Dates and null.
TypeofObject(value) == value.kind \in {"object", "null", "date"}

InstanceofDate(value) == value.kind = "date"

\* The own enumerable keys a for-in loop visits: none for null.
OwnKeys(value) == IF value.kind = "object" THEN DOMAIN value.fields ELSE {}

\* name = key, or prefix + '[' + key + ']'.
Name(key, pre) ==
    IF pre.given THEN pre.name \o <<"[", key, "]">> ELSE <<key>>

\* Object.assign(target, source): the source's properties win.
Assign(target, source) ==
    [n \in DOMAIN target \cup DOMAIN source |->
        IF n \in DOMAIN source THEN source[n] ELSE target[n]]

\* serializeArray: the loop over the keys left to visit, result so far in acc.
RECURSIVE serializeArray(_, _)
RECURSIVE SerializeKeys(_, _, _, _)
SerializeKeys(ps, pre, keys, acc) ==
    IF keys = {} THEN acc
    ELSE LET key == CHOOSE k \in keys : TRUE
             value == ps.fields[key]
             name == Name(key, pre)
             next ==
                 IF TypeofObject(value) /\ ~InstanceofDate(value)
                 THEN Assign(acc, serializeArray(value, [given |-> TRUE, name |-> name]))
                 ELSE Assign(acc, [n \in {name} |-> value])
         IN  SerializeKeys(ps, pre, keys \ {key}, next)

serializeArray(ps, pre) == SerializeKeys(ps, pre, OwnKeys(ps), <<>>)

\* A caller hands params and prefix to serializeArray and keeps the result.
Serialize ==
    /\ ~result.returned
    /\ result' = [returned |-> TRUE, value |-> serializeArray(params, prefix)]
    /\ UNCHANGED <<client, legacy, params, prefix>>

(* ----------------------------- observers ------------------------------ *)

\* The leaves of a tree of objects, each with the name its path spells.
RECURSIVE LeavesOf(_, _)
LeavesOf(ps, pre) ==
    UNION {LET value == ps.fields[key]
               name == Name(key, pre)
           IN  IF value.kind = "object"
               THEN LeavesOf(value, [given |-> TRUE, name |-> name])
               ELSE {<<name, value>>} : key \in DOMAIN ps.fields}

\* Call c reached sendRequest (it was not thrown out before).
Dispatched(c) == calls[c].pc # "none" /\ calls[c].err \notin {"validation", "unknown_method"}

\* Call c is a sendRequest with useToken = true that was dispatched.
Authorized(c) == Dispatched(c) /\ calls[c].useToken

Over(c) == calls[c].pc \in {"done", "failed"}

\* The positions of call c's requests to the token endpoint.
TokenReqs(c) == {i \in 1..Len(reqs[c]) : reqs[c][i].path = TOKEN_PATH}

\* Call c's first request is a token fetch / went straight to its endpoint.
Fetched(c) == Len(reqs[c]) >= 1 /\ reqs[c][1].path = TOKEN_PATH
Direct(c) == Len(reqs[c]) = 1 /\ reqs[c][1].path # TOKEN_PATH

\* Call c's token fetch failed.
FetchFailed(c) == Fetched(c) /\ reqs[c][1].status = "failed"

\* The endpoint requests of call c, token requests left out.
EndpointReqs(c) == {k \in 1..Len(reqs[c]) : reqs[c][k].path # TOKEN_PATH}

\* What a text that is not a JSON array of strings decodes to.
Malformed == <<<<"malformed">>>>

\* Reading a JSON text as the receiving end does: the array of strings the
\* text s denotes from position k on, out being the elements read so far and
\* cur the characters of the string being read.
RECURSIVE Scan(_, _, _, _, _)
Scan(s, k, mode, cur, out) ==
    IF k > Len(s) THEN Malformed
    ELSE CASE mode = "open" ->
                IF s[k] = "]" /\ k = Len(s) THEN out
                ELSE IF s[k] = "\"" THEN Scan(s, k + 1, "string", <<>>, out)
                ELSE Malformed
           [] mode = "value" ->
                IF s[k] = "\"" THEN Scan(s, k + 1, "string", <<>>, out)
                ELSE Malformed
           [] mode = "string" ->
                IF s[k] = "\\" THEN Scan(s, k + 1, "escape", cur, out)
                ELSE IF s[k] = "\"" THEN Scan(s, k + 1, "next", <<>>, Append(out, cur))
                ELSE Scan(s, k + 1, "string", Append(cur, s[k]), out)
           [] mode = "escape" ->
                IF s[k] \in {"\"", "\\"}
                THEN Scan(s, k + 1, "string", Append(cur, s[k]), out)
                ELSE Malformed
           [] OTHER ->
                IF s[k] = "," THEN Scan(s, k + 1, "value", <<>>, out)
                ELSE IF s[k] = "]" /\ k = Len(s) THEN out
                ELSE Malformed

\* JSON.parse of a text, for texts that are arrays of strings.
JSON_parse(s) ==
    IF Len(s) < 2 \/ s[1] # "[" THEN Malformed ELSE Scan(s, 2, "open", <<>>, <<>>)

(* --------------------------- specifications --------------------------- *)

\* No call is between its start and its end.
Idle == \A c \in CallIds : calls[c].pc \in {"none", "done", "failed"}

\* The dispatch core: authorized calls, unauthorized calls and direct token
\* fetches, overlapping freely.
Next ==
    \/ \E c \in CallIds, useToken \in BOOLEAN : SendRequestCall(c, This, "custom", useToken)
    \/ \E c \in CallIds : GetTokenCall(c, This)
    \/ \E c \in CallIds : Proceed(c)
    \/ Tick

Spec == Init /\ [][Next]_vars

\* Authorized and unauthorized calls overlapping freely, the clock standing
\* still, and the transport answering or failing every request it is given:
\* a call that can take a step eventually takes one.
LiveNext ==
    \/ \E c \in CallIds, useToken \in BOOLEAN : SendRequestCall(c, This, "custom", useToken)
    \/ \E c \in CallIds : Proceed(c)

LiveSpec == Init /\ [][LiveNext]_vars /\ \A c \in CallIds : WF_vars(Proceed(c))

\* The same operations, each awaited before the next one starts.
SeqNext ==
    \/ \E c \in CallIds : Idle /\ ListAddressBooks(c)
    \/ \E c \in CallIds, useToken \in BOOLEAN : Idle /\ SendRequestCall(c, This, "custom", useToken)
    \/ \E c \in CallIds : Idle /\ GetTokenCall(c, This)
    \/ \E c \in CallIds : Proceed(c)
    \/ Tick

SeqSpec == Init /\ [][SeqNext]_vars

\* The per-endpoint wrappers, the raw-dispatch escape hatch and sendRequest
\* itself, each call awaited before the next one starts.  The argument and verb checks do not
\* read the clock, which stands still here: a token is Valid or Expired from
\* the moment it is stored, by its reported lifetime.
ApiNext ==
    \/ \E c \in CallIds : Idle /\ ListAddressBooks(c)
    \/ \E c \in CallIds, book_name \in StrArgs : Idle /\ CreateAddressBook(c, book_name)
    \/ \E c \in CallIds, book_id \in StrArgs, emails \in ArrArgs :
          Idle /\ AddAddressBookEmails(c, book_id, emails)
    \/ \E c \in CallIds, method \in AnyMethods : Idle /\ SendRequestRaw(c, "custom", method)
    \/ \E c \in CallIds, useToken \in BOOLEAN :
          Idle /\ SendRequestCall(c, This, "custom", useToken)
    \/ \E c \in CallIds : Proceed(c)

ApiSpec == Init /\ [][ApiNext]_vars

\* smsAddPhones called once on a fresh client, with any phones argument.
SmsInit ==
    /\ LegacyLoaded
    /\ FlatIdle
    /\ token = NoToken
    /\ peer = NoToken
    /\ phones \in PhonesArgs
    /\ now = 0
    /\ calls = [c \in CallIds |-> NoCall]
    /\ reqs = [c \in CallIds |-> <<>>]
    /\ nCalls = 0
    /\ issued = 0
    /\ lastFetch = NoFetch

SmsNext ==
    \/ \E c \in CallIds : nCalls = 0 /\ SmsAddPhones(c)
    \/ \E c \in CallIds : Proceed(c)

SmsSpec == SmsInit /\ [][SmsNext]_vars

\* Two instances side by side: authorized calls on either of them,
\* overlapping freely.  The clock stands still, as in ApiSpec: a token is
\* Valid or Expired from the moment it is stored.
TwoNext ==
    \/ \E c \in CallIds, i \in Insts : SendRequestCall(c, i, "custom", TRUE)
    \/ \E c \in CallIds : Proceed(c)

TwoSpec == Init /\ [][TwoNext]_vars

\* Authorized dispatch with any path, through sendRequest and through
\* sendRequestRaw, each call awaited before the next one starts; the clock
\* stands still.
UrlNext ==
    \/ \E c \in CallIds, path \in PathArgs :
          Idle /\ SendRequestCall(c, This, path, TRUE)
    \/ \E c \in CallIds, path \in PathArgs, method \in AnyMethods :
          Idle /\ SendRequestRaw(c, path, method)
    \/ \E c \in CallIds : Proceed(c)

UrlSpec == Init /\ [][UrlNext]_vars

\* The legacy module: init with any credentials, getToken and getBalance,
\* overlapping freely.
LegacyNext ==
    \/ \E c \in CallIds, creds \in Creds : LegacyInit(c, creds)
    \/ \E c \in CallIds : LegacyGetToken(c)
    \/ \E c \in CallIds, currency \in CurrencyArgs : LegacyGetBalance(c, currency)
    \/ \E c \in CallIds : LegacyProceed(c)

LegacySpec == Init /\ [][LegacyNext]_vars

\* serializeArray called once, on any object and with any prefix.
FlatInit ==
    /\ LegacyLoaded
    /\ params \in ParamsArgs
    /\ prefix \in PrefixArgs
    /\ result = NoResult
    /\ token = NoToken
    /\ peer = NoToken
    /\ phones = NoPhones
    /\ now = 0
    /\ calls = [c \in CallIds |-> NoCall]
    /\ reqs = [c \in CallIds |-> <<>>]
    /\ nCalls = 0
    /\ issued = 0
    /\ lastFetch = NoFetch

FlatNext == Serialize

FlatSpec == FlatInit /\ [][FlatNext]_vars

(* ------------------------------- claims ------------------------------- *)

\* C1: every request issued with useToken = true carries a bearer token that
\* is non-expired (now < expires_at) at the instant it is handed to the
\* transport, whatever lifetime the token endpoint reported.
C1_BearerNonExpiredAtSend ==
    \A c \in CallIds : \A i \in 1..Len(reqs[c]) :
        reqs[c][i].auth => reqs[c][i].found = "Valid"

\* C2: with calls issued one after another, a call that finds no token makes
\* exactly one token fetch before it completes (so does the first authorized
\* call of a fresh client, counting every request of the client), no call
\* fetches twice, and no authorized call fetches while now < expires_at.
C2_OneFetchPerExpiryWindow ==
    /\ \A c \in CallIds : Authorized(c) =>
          /\ Cardinality(TokenReqs(c)) <= 1
          /\ \A i \in TokenReqs(c) : reqs[c][i].found # "Valid"
          /\ (calls[c].found = "Valid" => TokenReqs(c) = {})
          /\ (calls[c].found = "Absent" => Cardinality(TokenReqs(c)) = 1)
    /\ (nCalls = 1 /\ Authorized(1) /\ Over(1)) =>
          Cardinality({c \in CallIds : TokenReqs(c) # {}}) = 1

\* C2 witness: a first authorized call fetched and completed, and the next
\* authorized call, finding the token Valid, completed without a fetch.
C2_Witness ==
    /\ Authorized(1) /\ calls[1].pc = "done" /\ Cardinality(TokenReqs(1)) = 1
    /\ Authorized(2) /\ calls[2].pc = "done" /\ TokenReqs(2) = {}

\* C3: after a successful fetch reporting expires_in = N at fetch_time, the
\* stored expiry is fetch_time + (N - 60) seconds; an authorized call made at
\* fetch_time + N - 61 goes straight to its endpoint and one made at
\* fetch_time + N - 59 fetches again.
C3_ExpiryArithmetic ==
    [][/\ (token'.held /\ lastFetch'.has_expires_in) =>
            /\ ~token'.expires_nan
            /\ token'.expires_at = lastFetch'.at + (lastFetch'.expires_in - 60) * 1000
       /\ \A c \in CallIds :
            (/\ calls[c].pc = "none" /\ calls'[c].pc # "none"
             /\ calls'[c].useToken /\ calls'[c].err = "none"
             /\ token.held /\ lastFetch.has_expires_in) =>
               /\ (now = lastFetch.at + (lastFetch.expires_in - 61) * 1000
                     => Len(reqs'[c]) = 1 /\ reqs'[c][1].path # TOKEN_PATH)
               /\ (now = lastFetch.at + (lastFetch.expires_in - 59) * 1000
                     => reqs'[c][1].path = TOKEN_PATH)
      ]_vars

\* C3 witness: a token was stored with expires_in = 61 and, at that very
\* instant (fetch_time + 61 - 61), an authorized call found it Valid and sent
\* its endpoint request without a fetch.
C3_Witness ==
    /\ token.held /\ lastFetch.has_expires_in /\ lastFetch.expires_in = 61
    /\ now = lastFetch.at
    /\ \E c \in CallIds :
          Authorized(c) /\ calls[c].found = "Valid" /\ Direct(c) /\ reqs[c][1].auth

\* C4: a sendRequest call with useToken = false makes one request, to its own
\* path and without a bearer, never a token fetch, and no step of it changes
\* the token, whatever state the token is in; no call, a token fetch
\* included, ever makes a second request to the token endpoint.
C4_UnauthorizedNeverFetches ==
    [][\A c \in CallIds :
         /\ Cardinality({i \in 1..Len(reqs'[c]) : reqs'[c][i].path = TOKEN_PATH}) <= 1
         /\ (calls'[c].op = "sendRequest" /\ ~calls'[c].useToken) =>
              /\ Len(reqs'[c]) = 1
              /\ reqs'[c][1].path = calls'[c].path
              /\ reqs'[c][1].path # TOKEN_PATH
              /\ ~reqs'[c][1].auth
              /\ (calls'[c] # calls[c] \/ reqs'[c] # reqs[c]) =>
                    token' = token /\ issued' = issued
      ]_vars

\* C4 witness: an unauthorized call that started while the token was Expired
\* has completed.
C4_Witness ==
    \E c \in CallIds :
        /\ calls[c].op = "sendRequest" /\ ~calls[c].useToken
        /\ calls[c].found = "Expired" /\ calls[c].pc = "done"

\* C5: when a token fetch fails, the token held is exactly what it was, the
\* call ends with the request error, and that call never issues a request to
\* its own endpoint.
C5_FailedFetchLeavesToken ==
    [][\A c \in CallIds :
         /\ (/\ Len(reqs[c]) >= 1 /\ reqs[c][1].path = TOKEN_PATH
             /\ reqs[c][1].status = "inflight" /\ reqs'[c][1].status = "failed") =>
               token' = token
         /\ (/\ Len(reqs'[c]) >= 1 /\ reqs'[c][1].path = TOKEN_PATH
             /\ reqs'[c][1].status = "failed") =>
               /\ Len(reqs'[c]) = 1
               /\ calls'[c].pc = "failed" /\ calls'[c].err = "request"
      ]_vars

\* C5 witness: an authorized call's token fetch failed while a token (stored
\* by an earlier call) was held.
C5_Witness ==
    \E c \in CallIds : Authorized(c) /\ FetchFailed(c) /\ token.held

\* C6: a call whose token fetch failed has made that one request and nothing
\* else, and the authorized call that follows it fetches again.
C6_FailedFetchNotRetried ==
    /\ \A c \in CallIds :
          /\ Cardinality(TokenReqs(c)) <= 1
          /\ FetchFailed(c) => Len(reqs[c]) = 1 /\ calls[c].pc = "failed"
    /\ \A c \in CallIds \ {1} :
          (Authorized(c - 1) /\ FetchFailed(c - 1) /\ Authorized(c)) => Fetched(c)

\* C6 witness: an authorized call's fetch failed and the next authorized call
\* has issued its own token request.
C6_Witness ==
    \E c \in CallIds \ {1} :
        Authorized(c - 1) /\ FetchFailed(c - 1) /\ Authorized(c) /\ Fetched(c)

\* C7: there is no single-flight guard: every authorized call that finds the
\* token Absent or Expired issues a token request of its own, whether or not
\* another call's token request is in flight.
C7_EachCallFetchesForItself ==
    \A c \in CallIds :
        (Authorized(c) /\ calls[c].found \in {"Absent", "Expired"}) => Fetched(c)

\* C7 witness: two token requests of one client are in flight at once.
C7_Witness ==
    \E c, d \in CallIds :
        /\ c # d
        /\ Authorized(c) /\ Fetched(c) /\ reqs[c][1].status = "inflight"
        /\ Authorized(d) /\ Fetched(d) /\ reqs[d][1].status = "inflight"

\* C8: a wrapper given undefined or an empty string / array for a required
\* argument fails with the validation error and makes no request at all.
C8_EmptyArgumentRejected ==
    \A c \in CallIds :
        calls[c].args \in {"undefined", "empty"} =>
            calls[c].err = "validation" /\ reqs[c] = <<>>

\* C9: sendRequestRaw lets through exactly POST, GET, DELETE, PUT and PATCH;
\* with any other verb it fails with the unknown-method error, makes no
\* request, and the rejecting step leaves the token as it was.
C9_RawVerbs ==
    [][\A c \in CallIds : calls'[c].op = "sendRequestRaw" =>
         IF calls'[c].method \in {"POST", "GET", "DELETE", "PUT", "PATCH"}
         THEN calls'[c].err # "unknown_method" /\ Len(reqs'[c]) >= 1
         ELSE /\ calls'[c].err = "unknown_method" /\ calls'[c].pc = "failed"
              /\ reqs'[c] = <<>>
              /\ calls[c].op = "none" => token' = token /\ reqs' = reqs /\ issued' = issued
      ]_vars

\* C9 witness: with a token held, sendRequestRaw was called with HEAD and
\* failed, and it was called with PATCH and dispatched.
C9_Witness ==
    /\ token.held
    /\ \E c \in CallIds :
          /\ calls[c].op = "sendRequestRaw" /\ calls[c].method = "HEAD"
          /\ calls[c].err = "unknown_method"
    /\ \E c \in CallIds :
          /\ calls[c].op = "sendRequestRaw" /\ calls[c].method = "PATCH"
          /\ Len(reqs[c]) >= 1

\* C10: a listAddressBooks call that finds no token makes exactly one token
\* request, issues its endpoint request only after that request was answered,
\* and that one endpoint request is GET addressbooks with the bearer the
\* fetch returned.
C10_FetchThenEndpoint ==
    \A c \in CallIds :
        (calls[c].op = "listAddressBooks" /\ calls[c].found = "Absent") =>
            /\ Len(reqs[c]) \in {1, 2}
            /\ reqs[c][1].path = TOKEN_PATH /\ ~reqs[c][1].auth
            /\ Len(reqs[c]) = 2 =>
                  /\ reqs[c][1].status = "ok"
                  /\ reqs[c][2].path = "addressbooks" /\ reqs[c][2].method = "GET"
                  /\ reqs[c][2].auth
                  /\ reqs[c][2].bearer = reqs[c][1].access_token
            /\ (reqs[c][1].status = "ok" /\ Over(c)) => Len(reqs[c]) = 2

\* C10 witness: the first call of a fresh client was listAddressBooks and it
\* completed with a token request followed by an endpoint request.
C10_Witness ==
    /\ calls[1].op = "listAddressBooks" /\ calls[1].found = "Absent"
    /\ calls[1].pc = "done" /\ Len(reqs[1]) = 2

\* C11: whenever smsAddPhones was given an array and its request went out,
\* the payload of that request has a phones field, and the field is a JSON
\* text that reads back as exactly that array: every element, in order.
C11_ListFieldIsJsonOfArray ==
    \A c \in CallIds :
        (calls[c].op = "smsAddPhones" /\ phones.kind = "array") =>
            \A k \in EndpointReqs(c) :
                /\ reqs[c][k].data.has_phones
                /\ JSON_parse(reqs[c][k].data.phones) = phones.value

\* C12: a 2xx answer of the token endpoint that lacks expires_in is turned
\* into an error and stores nothing: the token held never has an expiry that
\* is undefined or not a number, and no fetch is recorded as stored from an
\* answer without expires_in.
C12_MissingExpiresInRejected ==
    /\ token.held => ~token.expires_nan
    /\ lastFetch # NoFetch => lastFetch.has_expires_in

\* C13: there is no way back to Absent: a step taken while a token is held
\* leaves a token held; and every step that changes the token is the arrival
\* of a successful answer to a token request, after which the token is the
\* one built from that answer, its bearer string being the one returned.
C13_NoWayBackToAbsent ==
    [][/\ token.held => token'.held
       /\ token' # token =>
            \E c \in CallIds :
                /\ Fetched(c) /\ reqs[c][1].status = "inflight"
                /\ reqs'[c][1].status = "ok"
                /\ token'.held
                /\ token'.access_token = reqs'[c][1].access_token
                /\ token'.access_token # token.access_token
                /\ token'.expires_nan = ~lastFetch'.has_expires_in
                /\ lastFetch'.at = now
      ]_vars

\* C13 witness: a token was stored and then replaced by a second fetch, and
\* a call whose endpoint request failed is over, the token still held.
C13_Witness ==
    /\ token.held /\ token.access_token = 2
    /\ \E c \in CallIds :
          /\ calls[c].pc = "failed" /\ EndpointReqs(c) # {}
          /\ \E d \in CallIds : d # c /\ Fetched(d) /\ reqs[d][1].status = "ok"

\* C14: a call hands at most two requests to the transport, at most one of
\* them to the token endpoint and, once it got that far, exactly one to its
\* own endpoint; when the endpoint request fails, the call ends in that very
\* step with the request error, makes no further request, and the token is
\* left as it was.
C14_OneRequestNoRetry ==
    [][\A c \in CallIds :
         /\ Len(reqs'[c]) <= 2
         /\ Cardinality(TokenReqs(c)') <= 1
         /\ Cardinality(EndpointReqs(c)') <= 1
         /\ \A k \in EndpointReqs(c)' : reqs'[c][k].path = calls'[c].path
         /\ (calls'[c].pc \in {"request", "done"} /\ calls'[c].op # "getToken") =>
               Cardinality(EndpointReqs(c)') = 1
         /\ (\E k \in EndpointReqs(c) :
                 reqs[c][k].status = "inflight" /\ reqs'[c][k].status = "failed") =>
               /\ calls'[c].pc = "failed" /\ calls'[c].err = "request"
               /\ Len(reqs'[c]) = Len(reqs[c])
               /\ token' = token
         /\ calls[c].pc = "failed" => reqs'[c] = reqs[c] /\ calls'[c] = calls[c]
      ]_vars

\* C14 witness: an authorized call fetched a token, sent its endpoint
\* request, and that request failed: the call is over after two requests
\* and the token it fetched is still held.
C14_Witness ==
    \E c \in CallIds :
        /\ Authorized(c) /\ calls[c].pc = "failed" /\ Len(reqs[c]) = 2
        /\ reqs[c][2].status = "failed" /\ reqs[c][2].path = calls[c].path
        /\ token.held /\ token.access_token = reqs[c][1].access_token

\* C15: a request carries the Authorization bearer header exactly when the
\* sendRequest that issued it was called with useToken = true: a request to
\* the token endpoint never carries it, a call's endpoint request carries it
\* if and only if the call is an authorized one, with the bearer string of a
\* token, and the endpoint request of a wrapper always carries it.
C15_BearerIffUseToken ==
    \A c \in CallIds : \A k \in 1..Len(reqs[c]) :
        /\ reqs[c][k].path = TOKEN_PATH =>
              ~reqs[c][k].auth /\ reqs[c][k].bearer = 0
        /\ reqs[c][k].path # TOKEN_PATH =>
              /\ reqs[c][k].auth <=> calls[c].useToken
              /\ reqs[c][k].auth <=> reqs[c][k].bearer # 0
              /\ calls[c].op = "listAddressBooks" => reqs[c][k].auth

\* C15 witness: a listAddressBooks call fetched a token and sent its
\* endpoint request with the header, and an unauthorized call made while
\* that token was held sent its request without it.
C15_Witness ==
    \E c, d \in CallIds :
        /\ calls[c].op = "listAddressBooks" /\ Len(reqs[c]) = 2
        /\ ~reqs[c][1].auth /\ reqs[c][2].auth
        /\ calls[d].op = "sendRequest" /\ ~calls[d].useToken
        /\ calls[d].found # "Absent"
        /\ Len(reqs[d]) = 1 /\ ~reqs[d][1].auth

\* C16: no step of a wrapper call that fails its argument check, of a
\* sendRequestRaw call rejected for its verb, of an unauthorized sendRequest
\* call, or of an authorized call that found the token Valid changes the
\* token held, and none of them has a token issued.
C16_OnlyFetchWritesToken ==
    [][\A c \in CallIds :
         (/\ calls'[c] # calls[c] \/ reqs'[c] # reqs[c]
          /\ \/ calls'[c].err \in {"validation", "unknown_method"}
             \/ calls'[c].op = "sendRequest" /\ ~calls'[c].useToken
             \/ calls'[c].useToken /\ calls'[c].found = "Valid") =>
            token' = token /\ issued' = issued
      ]_vars

\* C16 witness: the first call fetched a token, and the second, an
\* authorized call that found it Valid, has completed; the token held is
\* still the one the first call stored.
C16_Witness ==
    /\ Fetched(1) /\ reqs[1][1].status = "ok"
    /\ Authorized(2) /\ calls[2].found = "Valid" /\ calls[2].pc = "done"
    /\ token.held /\ token.access_token = reqs[1][1].access_token

\* C17: the token is a field of the instance.  A step of a call made on one
\* instance leaves the other instance's token as it was; an authorized call
\* that starts on an instance holding no token fetches, whatever the other
\* instance holds; and a request a call sends with the header carries the
\* bearer string of the token of the call's own instance.
C17_TokenPerInstance ==
    [][\A c \in CallIds :
         (calls'[c] # calls[c] \/ reqs'[c] # reqs[c]) =>
            /\ calls'[c].inst = This => peer' = peer
            /\ calls'[c].inst = That => token' = token
            /\ (calls[c].pc = "none" /\ calls'[c].useToken) =>
                  /\ (calls'[c].inst = This /\ ~token.held) => reqs'[c][1].path = TOKEN_PATH
                  /\ (calls'[c].inst = That /\ ~peer.held) => reqs'[c][1].path = TOKEN_PATH
            /\ (Len(reqs'[c]) > Len(reqs[c]) /\ reqs'[c][Len(reqs'[c])].auth) =>
                  reqs'[c][Len(reqs'[c])].bearer =
                      IF calls'[c].inst = This THEN token.access_token
                                              ELSE peer.access_token
      ]_vars

\* C17 witness: the first call, on one instance, fetched and completed; the
\* second call, on the other instance, made its own fetch and completed; the
\* two instances hold different tokens.
C17_Witness ==
    /\ calls[1].inst = This /\ calls[1].pc = "done" /\ Len(reqs[1]) = 2
    /\ calls[2].inst = That /\ calls[2].pc = "done" /\ Len(reqs[2]) = 2
    /\ Fetched(2) /\ calls[2].found = "Absent"
    /\ token.held /\ token.access_token = reqs[1][1].access_token
    /\ peer.held /\ peer.access_token = reqs[2][1].access_token
    /\ reqs[1][2].bearer # reqs[2][2].bearer

\* C18: with calls made one after another, an authorized call that finds the
\* token Expired makes a token request first; its endpoint request goes out
\* only after that request succeeded and carries the bearer string the
\* refetch returned, which is no bearer string returned to any other call
\* (the expired one among them); and until a later call starts, the token
\* held is the one the refetch returned.
C18_ExpiredRefetchCarriesNew ==
    \A c \in CallIds :
        (Authorized(c) /\ calls[c].found = "Expired") =>
            /\ Fetched(c) /\ reqs[c][1].found = "Expired"
            /\ Len(reqs[c]) = 2 =>
                  /\ reqs[c][1].status = "ok"
                  /\ reqs[c][2].auth
                  /\ reqs[c][2].bearer = reqs[c][1].access_token
                  /\ \A d \in CallIds \ {c} : \A k \in TokenReqs(d) :
                        reqs[c][2].bearer # reqs[d][k].access_token
            /\ (reqs[c][1].status = "ok" /\ nCalls = c) =>
                  token.held /\ token.access_token = reqs[c][1].access_token

\* C18 witness: the first call stored a token; the second, an authorized
\* call that found that token Expired, refetched and completed, and the
\* token held is the second one issued.
C18_Witness ==
    /\ Fetched(1) /\ reqs[1][1].status = "ok"
    /\ Authorized(2) /\ calls[2].found = "Expired"
    /\ calls[2].pc = "done" /\ Len(reqs[2]) = 2
    /\ reqs[2][2].bearer = 2 /\ token.access_token = 2

C20_BearerFromSuccessfulFetch ==
    [][\A c \in CallIds :
         /\ \A k \in 1..Len(reqs'[c]) : reqs'[c][k].auth =>
               /\ reqs'[c][k].bearer # 0
               /\ \E d \in CallIds : \E j \in 1..Len(reqs'[d]) :
                     /\ calls'[d].inst = calls'[c].inst
                     /\ reqs'[d][j].path = TOKEN_PATH /\ reqs'[d][j].status = "ok"
                     /\ reqs'[d][j].access_token = reqs'[c][k].bearer
         /\ (/\ Fetched(c) /\ reqs[c][1].status = "inflight"
             /\ reqs'[c][1].status = "failed") =>
               /\ token' = token
               /\ EndpointReqs(c)' = {}
      ]_vars

\* C20 witness: two authorized calls overlapped, both having found the token
\* Absent; the fetch of the second failed, the fetch of the first succeeded,
\* and the first sent its endpoint request with the bearer it was returned,
\* the token being held still.
C20_Witness ==
    /\ Authorized(1) /\ calls[1].found = "Absent"
    /\ Authorized(2) /\ calls[2].found = "Absent" /\ FetchFailed(2)
    /\ Len(reqs[1]) = 2 /\ reqs[1][2].auth
    /\ reqs[1][2].bearer = reqs[1][1].access_token
    /\ token.held /\ token.access_token = reqs[1][1].access_token

\* C21: every request that carries the bearer goes to the host of the
\* configured base URL, its path being the path handed in, whatever that
\* path looks like.
C21_BearerOnlyToBaseUrl ==
    \A c \in CallIds : \A k \in 1..Len(reqs[c]) :
        reqs[c][k].auth =>
            /\ reqs[c][k].url.host = API_HOST
            /\ reqs[c][k].url.pathname \in
                   {Parts(reqs[c][k].path), <<"/">> \o Parts(reqs[c][k].path)}

\* C22: in the step in which an init call completes successfully, at once or
\* when its token request is answered, the TOKEN left for authorized
\* requests is a token issued for the credentials that init was given.
C22_InitTokenForCredentials ==
    [][\A c \in CallIds :
         (/\ legacyCalls'[c].op = "init"
          /\ legacyCalls[c].pc # "done" /\ legacyCalls'[c].pc = "done") =>
            TOKEN'.held /\ TOKEN'.for = legacyCalls'[c].creds
      ]_vars

\* C23: the entry of TOKEN_STORAGE under the hash name of a pair of
\* credentials is either empty or a token issued for that pair.
C23_CacheEntryForItsCredentials ==
    \A creds \in Creds :
        TOKEN_STORAGE[HashName(creds)].held =>
            TOKEN_STORAGE[HashName(creds)].for = creds

\* C24: every request of an authorized legacy wrapper carries the
\* Authorization header with a bearer.
C24_LegacyAuthorizedHasBearer ==
    \A c \in CallIds : \A k \in 1..Len(legacyReqs[c]) :
        legacyCalls[c].op = "getBalance" =>
            legacyReqs[c][k].auth /\ legacyReqs[c][k].bearer.held

\* C26: a getBalance call never fails before dispatch and hands exactly one
\* GET request to the transport: to balance when no currency was given, to
\* balance/ followed by the code in upper case when one was.
C26_GetBalancePath ==
    \A c \in CallIds :
        (/\ legacyCalls[c].op = "getBalance"
         /\ \/ ~legacyCalls[c].currency.given
            \/ legacyCalls[c].currency.value \in {"usd", "USD"}) =>
            /\ legacyCalls[c].err # "TypeError"
            /\ Len(legacyReqs[c]) = 1
            /\ legacyReqs[c][1].method = "GET"
            /\ legacyReqs[c][1].path =
                   IF legacyCalls[c].currency.given
                   THEN <<"balance", "/", "USD">> ELSE <<"balance">>

\* C25: every call that was started is eventually over, with a response or
\* with an error, and on the way it never has more than one token request
\* and one endpoint request behind it.
C25_EveryCallTerminates ==
    /\ \A c \in CallIds : (calls[c].pc # "none") ~> Over(c)
    /\ [](\A c \in CallIds : Len(reqs[c]) <= 2 /\ Cardinality(TokenReqs(c)) <= 1)

\* C25 witness: an authorized call that had to refresh has returned, and a
\* call whose token request failed has raised its error.
C25_Witness ==
    \E c, d \in CallIds :
        /\ Authorized(c) /\ calls[c].pc = "done" /\ Len(reqs[c]) = 2
        /\ FetchFailed(d) /\ calls[d].pc = "failed"

\* C27: serializeArray leaves its input as it was, returns no nested object,
\* and returns every leaf of the input, null leaves included, exactly once,
\* under the name its path spells and with its value.
C27_EveryLeafOnceUnderItsPath ==
    [][Serialize =>
          /\ params' = params
          /\ \A n \in DOMAIN result'.value : result'.value[n].kind # "object"
          /\ \A l \in LeavesOf(params, prefix) :
                 /\ l[1] \in DOMAIN result'.value
                 /\ result'.value[l[1]] = l[2]
          /\ Cardinality(DOMAIN result'.value) =
                 Cardinality(LeavesOf(params, prefix))]_vars

====
